---------------------------- MODULE Spec2Model ----------------------------
(***************************************************************************)
(* Model of src/atric_sales_online.py: the sheet normaliser                *)
(* (cleanup_cols, load_all_units), the magnitude parser (parse_number),    *)
(* the free-text query parser (parse_query), the two filter engines        *)
(* (filter_df, apply_filters) and the script body that displays and        *)
(* exports the result.                                                     *)
(*                                                                         *)
(* Texts are sequences of one-character strings.  Numbers are exact        *)
(* decimals m * 10^e (records [k, m, e]) with the float values nan and     *)
(* inf kept apart; both parsers compute float(x) * multiplier in the same  *)
(* way, so the exact decimal stands for the float either of them gets.     *)
(***************************************************************************)
EXTENDS Integers, Sequences, FiniteSets, TLC

(***************************************************************************)
(* Characters: str.lower, and the classes \d, \s, \w, [a-z], [\d\.,].      *)
(***************************************************************************)
LowerLetters == <<"a","b","c","d","e","f","g","h","i","j","k","l","m",
                  "n","o","p","q","r","s","t","u","v","w","x","y","z">>

UpperLetters == <<"A","B","C","D","E","F","G","H","I","J","K","L","M",
                  "N","O","P","Q","R","S","T","U","V","W","X","Y","Z">>

Digits == <<"0","1","2","3","4","5","6","7","8","9">>

Range(s) == {s[i] : i \in DOMAIN s}

IndexOf(s, c) == CHOOSE i \in DOMAIN s : s[i] = c

IsLower(c) == c \in Range(LowerLetters)

IsUpper(c) == c \in Range(UpperLetters)

IsDigit(c) == c \in Range(Digits)

IsSpace(c) == c \in {" ", "\t", "\n"}

IsWord(c) == IsLower(c) \/ IsUpper(c) \/ IsDigit(c) \/ c = "_"

IsNumChar(c) == IsDigit(c) \/ c \in {".", ","}

DigitVal(c) == IndexOf(Digits, c) - 1

LowerChar(c) == IF IsUpper(c) THEN LowerLetters[IndexOf(UpperLetters, c)] ELSE c

UpperChar(c) == IF IsLower(c) THEN UpperLetters[IndexOf(LowerLetters, c)] ELSE c

Lower(s) == [i \in 1..Len(s) |-> LowerChar(s[i])]

Upper(s) == [i \in 1..Len(s) |-> UpperChar(s[i])]

\* str.replace(c, ""): s without its occurrences of the character c.
RECURSIVE Remove(_, _)
Remove(s, c) ==
    IF s = <<>> THEN <<>>
    ELSE IF Head(s) = c THEN Remove(Tail(s), c)
    ELSE <<Head(s)>> \o Remove(Tail(s), c)

\* str.strip(): s without its leading and trailing whitespace.
RECURSIVE Strip(_)
Strip(s) ==
    IF s = <<>> THEN <<>>
    ELSE IF IsSpace(Head(s)) THEN Strip(Tail(s))
    ELSE IF IsSpace(s[Len(s)]) THEN Strip(SubSeq(s, 1, Len(s) - 1))
    ELSE s

Min(S) == CHOOSE x \in S : \A y \in S : x <= y

(***************************************************************************)
(* Float values.                                                           *)
(***************************************************************************)
RECURSIVE Norm(_, _)
Norm(m, e) ==
    IF m = 0 THEN [k |-> "num", m |-> 0, e |-> 0]
    ELSE IF m % 10 = 0 THEN Norm(m \div 10, e + 1)
    ELSE [k |-> "num", m |-> m, e |-> e]

NaN == [k |-> "nan", m |-> 0, e |-> 0]

Inf == [k |-> "inf", m |-> 1, e |-> 0]

NegInf == [k |-> "inf", m |-> -1, e |-> 0]

\* Python's None, as parse_number returns it.
None == [k |-> "none", m |-> 0, e |-> 0]

Zero == Norm(0, 0)

RECURSIVE Pow10(_)
Pow10(n) == IF n = 0 THEN 1 ELSE 10 * Pow10(n - 1)

RECURSIVE NumDigits(_)
NumDigits(n) == IF n < 10 THEN 1 ELSE 1 + NumDigits(n \div 10)

Abs(n) == IF n < 0 THEN -n ELSE n

Sign(n) == IF n < 0 THEN -1 ELSE IF n = 0 THEN 0 ELSE 1

\* a <= b for two positive decimals, compared without leaving 32 bits: by
\* order of magnitude first, by the aligned mantissas when it is the same.
PosLe(a, b) ==
    LET ma == NumDigits(a.m) + a.e
        mb == NumDigits(b.m) + b.e
    IN  IF ma # mb THEN ma < mb
        ELSE IF a.e >= b.e THEN a.m * Pow10(a.e - b.e) <= b.m
        ELSE a.m <= b.m * Pow10(b.e - a.e)

\* The float comparison a <= b: False as soon as one side is nan.
Le(a, b) ==
    IF a.k = "nan" \/ b.k = "nan" THEN FALSE
    ELSE IF a.k = "inf" THEN a.m < 0 \/ b = Inf
    ELSE IF b.k = "inf" THEN b.m > 0
    ELSE IF Sign(a.m) # Sign(b.m) THEN Sign(a.m) < Sign(b.m)
    ELSE IF a.m = 0 THEN TRUE
    ELSE IF a.m > 0 THEN PosLe(a, b)
    ELSE PosLe([b EXCEPT !.m = -b.m], [a EXCEPT !.m = -a.m])

Ge(a, b) == Le(b, a)

\* The float product val * 10^n (n = 6 for the suffix m, 3 for k).
Scale(v, n) == IF v.k = "num" THEN Norm(v.m, v.e + n) ELSE v

Neg(v) == IF v.k = "nan" THEN v ELSE [v EXCEPT !.m = -v.m]

(***************************************************************************)
(* float(s) of Python, for a text s.                                       *)
(***************************************************************************)
AllDigits(s) == s # <<>> /\ \A i \in DOMAIN s : IsDigit(s[i])

RECURSIVE DigitsVal(_)
DigitsVal(s) ==
    IF s = <<>> THEN 0
    ELSE 10 * DigitsVal(SubSeq(s, 1, Len(s) - 1)) + DigitVal(s[Len(s)])

Count(s, c) == Cardinality({i \in DOMAIN s : s[i] = c})

\* digits with at most one dot and at least one digit: "5", "5.", ".5", "1.25".
IsPlainDecimal(s) ==
    /\ \A i \in DOMAIN s : IsDigit(s[i]) \/ s[i] = "."
    /\ Count(s, ".") <= 1
    /\ \E i \in DOMAIN s : IsDigit(s[i])

PlainDecimal(s) ==
    LET frac == IF Count(s, ".") = 0 THEN 0 ELSE Len(s) - IndexOf(s, ".")
    IN  Norm(DigitsVal(Remove(s, ".")), -frac)

\* An underscore is accepted only between two digits.
UnderscoresOk(s) ==
    \A i \in DOMAIN s :
        s[i] = "_" => /\ i > 1 /\ i < Len(s)
                      /\ IsDigit(s[i - 1]) /\ IsDigit(s[i + 1])

IsSignedInt(s) ==
    IF s # <<>> /\ Head(s) \in {"+", "-"} THEN AllDigits(Tail(s)) ELSE AllDigits(s)

SignedInt(s) ==
    IF Head(s) = "-" THEN -DigitsVal(Tail(s))
    ELSE IF Head(s) = "+" THEN DigitsVal(Tail(s))
    ELSE DigitsVal(s)

\* [mantissa][e exponent] without a sign; None when it is no number.
Unsigned(s) ==
    IF s \in {<<"i","n","f">>, <<"i","n","f","i","n","i","t","y">>} THEN Inf
    ELSE IF s = <<"n","a","n">> THEN NaN
    ELSE IF Count(s, "e") = 0
         THEN IF IsPlainDecimal(s) THEN PlainDecimal(s) ELSE None
    ELSE LET p    == IndexOf(s, "e")
             mant == SubSeq(s, 1, p - 1)
             ex   == SubSeq(s, p + 1, Len(s))
         IN  IF IsPlainDecimal(mant) /\ IsSignedInt(ex)
             THEN Scale(PlainDecimal(mant), SignedInt(ex))
             ELSE None

\* float(s): the value, or None where Python raises ValueError.
PyFloat(s) ==
    LET t == Strip(s)
        u == Remove(t, "_")
    IN  IF ~UnderscoresOk(t) \/ u = <<>> THEN None
        ELSE IF Head(u) = "-"
             THEN LET v == Unsigned(Tail(u)) IN IF v = None THEN None ELSE Neg(v)
        ELSE IF Head(u) = "+" THEN Unsigned(Tail(u))
        ELSE Unsigned(u)

(***************************************************************************)
(* parse_number                                                            *)
(***************************************************************************)
\* re.fullmatch(r"(\d+(?:\.\d+)?)([mk])?", s): group 1, or <<>> for no match.
NumberGroup1(s) ==
    LET body == IF s # <<>> /\ s[Len(s)] \in {"m", "k"}
                THEN SubSeq(s, 1, Len(s) - 1) ELSE s
        ok   == /\ IsPlainDecimal(body)
                /\ IsDigit(body[1])
                /\ IsDigit(body[Len(body)])
    IN  IF ok THEN body ELSE <<>>

parse_number(s) ==
    IF s = <<>> THEN None
    ELSE LET t  == Remove(Lower(Strip(s)), ",")
             g1 == NumberGroup1(t)
         IN  IF g1 = <<>> THEN PyFloat(t)
             ELSE IF t[Len(t)] = "m" THEN Scale(PlainDecimal(g1), 6)
             ELSE IF t[Len(t)] = "k" THEN Scale(PlainDecimal(g1), 3)
             ELSE PlainDecimal(g1)

(***************************************************************************)
(* The regular expressions of parse_query, over the lowercased text.       *)
(***************************************************************************)
\* The text w stands in s at position i.
StartsWithAt(s, i, w) ==
    /\ i + Len(w) - 1 <= Len(s)
    /\ \A j \in 1..Len(w) : s[i + j - 1] = w[j]

\* "w in s" of Python.
Contains(s, w) == \E i \in 1..(Len(s) + 1) : StartsWithAt(s, i, w)

\* \s* from position i: the first position at or after i that holds no whitespace.
RECURSIVE SkipWs(_, _)
SkipWs(s, i) == IF i <= Len(s) /\ IsSpace(s[i]) THEN SkipWs(s, i + 1) ELSE i

\* [\d\.,]+ from position i: the position after the run (i itself when empty).
RECURSIVE NumRunEnd(_, _)
NumRunEnd(s, i) == IF i <= Len(s) /\ IsNumChar(s[i]) THEN NumRunEnd(s, i + 1) ELSE i

\* \d+ from position i: the position after the run.
RECURSIVE DigitRunEnd(_, _)
DigitRunEnd(s, i) == IF i <= Len(s) /\ IsDigit(s[i]) THEN DigitRunEnd(s, i + 1) ELSE i

\* \b before the word character at i, and after the word character at i.
BoundaryBefore(s, i) == i = 1 \/ ~IsWord(s[i - 1])

BoundaryAfter(s, i) == i = Len(s) \/ ~IsWord(s[i + 1])

NoMatch == [hit |-> FALSE, cmp |-> <<>>, num |-> <<>>, unit |-> <<>>]

MaxPriceLeads == {<<"u","n","d","e","r">>, <<"<","=">>,
                  <<"l","e","s","s"," ","t","h","a","n">>}

\* The min-price lead-ins without ">=".
MinPriceLeadsNoGe == {<<"o","v","e","r">>, <<"m","o","r","e"," ","t","h","a","n">>, <<"a","b","o","v","e">>}

MinPriceLeads == {<<"o","v","e","r">>, <<">","=">>,
                  <<"m","o","r","e"," ","t","h","a","n">>, <<"a","b","o","v","e">>}

AreaWords == {<<"a","r","e","a">>, <<"s","q","m">>}

MinAreaCmps == {<<">","=">>, <<"o","v","e","r">>, <<"m","i","n">>}

MaxAreaCmps == {<<"<","=">>, <<"u","n","d","e","r">>, <<"m","a","x">>}

\* lead \s* [\d\.,]+ at position i: the lead-in that matches there with a number
\* after it (the lead-ins of one set differ in their first character).
LeadsAt(s, i, leads) ==
    {w \in leads : /\ StartsWithAt(s, i, w)
                   /\ NumRunEnd(s, SkipWs(s, i + Len(w))) > SkipWs(s, i + Len(w))}

\* re.search(r"(lead1|lead2|...)\s*([\d\.,]+)\s*([mk])?", s): the leftmost
\* match; every quantifier is greedy and none has to give anything back.
SearchPrice(s, leads) ==
    LET starts == {i \in 1..Len(s) : LeadsAt(s, i, leads) # {}}
    IN  IF starts = {} THEN NoMatch
        ELSE LET i == Min(starts)
                 w == CHOOSE x \in LeadsAt(s, i, leads) : TRUE
                 a == SkipWs(s, i + Len(w))
                 b == NumRunEnd(s, a)
                 c == SkipWs(s, b)
             IN  [hit  |-> TRUE,
                  cmp  |-> w,
                  num  |-> SubSeq(s, a, b - 1),
                  unit |-> IF c <= Len(s) /\ s[c] \in {"m", "k"}
                           THEN <<s[c]>> ELSE <<>>]

\* (area|sqm) \s* cmp \s* [\d\.,]+ at position i: the pairs <<word, cmp>>.
AreaAt(s, i, cmps) ==
    {p \in AreaWords \X cmps :
        /\ StartsWithAt(s, i, p[1])
        /\ StartsWithAt(s, SkipWs(s, i + Len(p[1])), p[2])
        /\ LET a == SkipWs(s, SkipWs(s, i + Len(p[1])) + Len(p[2]))
           IN  NumRunEnd(s, a) > a}

\* re.search(r"(area|sqm)\s*(cmp1|cmp2|cmp3)\s*([\d\.,]+)", s).
SearchArea(s, cmps) ==
    LET starts == {i \in 1..Len(s) : AreaAt(s, i, cmps) # {}}
    IN  IF starts = {} THEN NoMatch
        ELSE LET i == Min(starts)
                 p == CHOOSE x \in AreaAt(s, i, cmps) : TRUE
                 a == SkipWs(s, SkipWs(s, i + Len(p[1])) + Len(p[2]))
             IN  [hit  |-> TRUE,
                  cmp  |-> p[2],
                  num  |-> SubSeq(s, a, NumRunEnd(s, a) - 1),
                  unit |-> <<>>]

\* re.search(r"(\d+)\s*(bed|bedroom|bedrooms)", s): group 1, or <<>>.
SearchBedrooms(s) ==
    LET starts == {i \in 1..Len(s) :
                      /\ IsDigit(s[i])
                      /\ StartsWithAt(s, SkipWs(s, DigitRunEnd(s, i)), <<"b","e","d">>)}
    IN  IF starts = {} THEN <<>>
        ELSE SubSeq(s, Min(starts), DigitRunEnd(s, Min(starts)) - 1)

\* re.findall(r"\b(\d{2,4})\b", s): the first match, or <<>> when there is none.
FirstPlainNumber(s) ==
    LET starts == {i \in 1..Len(s) :
                      /\ IsDigit(s[i])
                      /\ BoundaryBefore(s, i)
                      /\ DigitRunEnd(s, i) - i \in 2..4
                      /\ BoundaryAfter(s, DigitRunEnd(s, i) - 1)}
    IN  IF starts = {} THEN <<>>
        ELSE SubSeq(s, Min(starts), DigitRunEnd(s, Min(starts)) - 1)

\* [a-z]\d{1,2} at position i with \b before it: the position after it, or 0.
BuildingEnd(s, i) ==
    IF IsLower(s[i]) /\ BoundaryBefore(s, i) /\ DigitRunEnd(s, i + 1) - (i + 1) \in 1..2
    THEN DigitRunEnd(s, i + 1) ELSE 0

\* re.search(r"\b([a-z]\d{1,2})\b", s): group 1, or <<>>.
SearchBuilding(s) ==
    LET starts == {i \in 1..Len(s) :
                      /\ BuildingEnd(s, i) # 0
                      /\ BoundaryAfter(s, BuildingEnd(s, i) - 1)}
    IN  IF starts = {} THEN <<>>
        ELSE SubSeq(s, Min(starts), BuildingEnd(s, Min(starts)) - 1)

\* [a-z]\d{1,2}-\d{2,3} at position i between two \b: the position after it, or 0.
UnitEnd(s, i) ==
    LET h == BuildingEnd(s, i)
    IN  IF /\ h # 0 /\ h <= Len(s) /\ s[h] = "-"
           /\ DigitRunEnd(s, h + 1) - (h + 1) \in 2..3
           /\ BoundaryAfter(s, DigitRunEnd(s, h + 1) - 1)
        THEN DigitRunEnd(s, h + 1) ELSE 0

\* re.search(r"\b([a-z]\d{1,2}-\d{2,3})\b", s): group 1, or <<>>.
SearchUnit(s) ==
    LET starts == {i \in 1..Len(s) : UnitEnd(s, i) # 0}
    IN  IF starts = {} THEN <<>>
        ELSE SubSeq(s, Min(starts), UnitEnd(s, Min(starts)) - 1)

(***************************************************************************)
(* parse_query                                                             *)
(***************************************************************************)
BOHO == <<"B","O","H","O">>

Boardwalk == <<"B","o","a","r","d","w","a","l","k">>

Available == <<"A","v","a","i","l","a","b","l","e">>

Hold == <<"H","o","l","d">>

\* float(m.group(n).replace(",", "")): None where it raises.
GroupFloat(num) == PyFloat(Remove(num, ","))

\* val * (1_000_000 if unit == "m" else 1_000 if unit == "k" else 1)
PriceValue(mt) ==
    Scale(GroupFloat(mt.num),
          IF mt.unit = <<"m">> THEN 6 ELSE IF mt.unit = <<"k">> THEN 3 ELSE 0)

\* The result of a call: the intent f (a dict: a function on the keys it holds),
\* or raised = TRUE when the call ends in an exception.
Raised == [raised |-> TRUE, f |-> [d \in {} |-> <<>>]]

parse_query(q) ==
    LET ql      == Lower(q)
        project == (IF Contains(ql, Lower(BOHO)) THEN <<BOHO>> ELSE <<>>)
                   \o (IF Contains(ql, Lower(Boardwalk)) THEN <<Boardwalk>> ELSE <<>>)
        status  == IF Contains(ql, Lower(Hold)) THEN <<Hold>>
                   ELSE IF Contains(ql, Lower(Available)) THEN <<Available>>
                   ELSE <<>>
        bed     == SearchBedrooms(ql)
        mx      == SearchPrice(ql, MaxPriceLeads)
        mn      == SearchPrice(ql, MinPriceLeads)
        amin    == SearchArea(ql, MinAreaCmps)
        amax    == SearchArea(ql, MaxAreaCmps)
        m_all   == FirstPlainNumber(ql)
        bld     == SearchBuilding(ql)
        unit    == SearchUnit(ql)
        exact   == m_all # <<>> /\ bed = <<>> /\ ~mn.hit /\ ~mx.hit
        keys    == {d \in {"project"} : project # <<>>}
                   \cup {d \in {"status"} : status # <<>>}
                   \cup {d \in {"bedrooms"} : bed # <<>>}
                   \cup {d \in {"max_price"} : mx.hit}
                   \cup {d \in {"min_price"} : mn.hit}
                   \cup {d \in {"min_area"} : amin.hit}
                   \cup {d \in {"max_area"} : amax.hit}
                   \cup {d \in {"exact_area"} : exact}
                   \cup {d \in {"building"} : bld # <<>>}
                   \cup {d \in {"unit_no"} : unit # <<>>}
    IN  IF \/ mx.hit /\ GroupFloat(mx.num) = None
           \/ mn.hit /\ GroupFloat(mn.num) = None
           \/ amin.hit /\ GroupFloat(amin.num) = None
           \/ amax.hit /\ GroupFloat(amax.num) = None
        THEN Raised
        ELSE [raised |-> FALSE,
              f |-> [d \in keys |->
                       CASE d = "project"    -> project
                         [] d = "status"     -> status
                         [] d = "bedrooms"   -> bed
                         [] d = "max_price"  -> PriceValue(mx)
                         [] d = "min_price"  -> PriceValue(mn)
                         [] d = "min_area"   -> GroupFloat(amin.num)
                         [] d = "max_area"   -> GroupFloat(amax.num)
                         [] d = "exact_area" -> PyFloat(m_all)
                         [] d = "building"   -> Upper(bld)
                         [] d = "unit_no"    -> Upper(unit)]]

(***************************************************************************)
(* Tables.  A table is [cols, rows]: the column names in order and the     *)
(* rows, each a function from the column names to cells.  A cell is a text *)
(* [k |-> "str", s], a float, or NaN (pandas' missing value).              *)
(***************************************************************************)
Str(s) == [k |-> "str", s |-> s]

IsNA(c) == c.k = "nan"

\* Series.fillna(v)
FillNa(c, v) == IF IsNA(c) THEN v ELSE c

\* Series.astype(str) of a cell.
AsStr(c) == IF c.k = "str" THEN c.s ELSE <<"n","a","n">>

\* Series.isin(values) of a cell.
IsIn(c, values) == c.k = "str" /\ c.s \in Range(values)

HasCol(df, c) == c \in Range(df.cols)

\* df[mask]: the rows that pass, in their order, under the same columns.
Where(df, Test(_)) == [df EXCEPT !.rows = SelectSeq(df.rows, Test)]

\* if cond: out = out[mask]
Narrow(out, cond, Test(_)) == IF cond THEN Where(out, Test) ELSE out

Bedroom == <<"b","e","d","r","o","o","m">>

\* Series.str.contains(r"(^|\s)(n1|n2|...)\s*Bedrooms?", case=False) of a text.
BedroomsMatch(cfg, nums) ==
    LET t == Lower(cfg)
    IN  \E i \in 1..Len(t) : \E n \in nums :
            /\ i = 1 \/ IsSpace(t[i - 1])
            /\ StartsWithAt(t, i, Lower(n))
            /\ StartsWithAt(t, SkipWs(t, i + Len(n)), Bedroom)

(***************************************************************************)
(* apply_filters                                                           *)
(***************************************************************************)
\* The column each key of an intent reads.
ColumnOf(d) ==
    CASE d \in {"project", "status"}                 -> d
      [] d = "bedrooms"                              -> "configuration"
      [] d \in {"min_price", "max_price"}            -> "price"
      [] d \in {"min_area", "max_area", "exact_area"} -> "selling_area"
      [] d = "building"                              -> "_building_upper"
      [] d = "unit_no"                               -> "_unit_upper"

Has(f, d) == d \in DOMAIN f

\* The min-price test without fillna(0): an absent price fails every bound.
KeepMinPriceNoFill(r, f) == Ge(r["price"], f["min_price"])

\* The min-price test given up as soon as the intent names a unit.
KeepMinPriceUnlessUnit(r, f) ==
    Has(f, "unit_no") \/ Ge(FillNa(r["price"], Zero), f["min_price"])

KeepMinPrice(r, f) == Ge(FillNa(r["price"], Zero), f["min_price"])

KeepMaxPrice(r, f) == Le(FillNa(r["price"], Zero), f["max_price"])

KeepMinArea(r, f) == Ge(FillNa(r["selling_area"], Zero), f["min_area"])

KeepMaxArea(r, f) == Le(FillNa(r["selling_area"], Zero), f["max_area"])

KeepExactArea(r, f) ==
    LET a == FillNa(r["selling_area"], Zero)
    IN  a.k # "nan" /\ f["exact_area"].k # "nan" /\ a = f["exact_area"]

\* The result of a call: the table out, or raised = TRUE for the KeyError of a
\* column the table does not have.
apply_filters(df, f) ==
    LET o1  == Narrow(df, Has(f, "project"), LAMBDA r : IsIn(r["project"], f["project"]))
        o2  == Narrow(o1, Has(f, "status"), LAMBDA r : IsIn(r["status"], f["status"]))
        o3  == Narrow(o2, Has(f, "bedrooms"), LAMBDA r :
                  BedroomsMatch(AsStr(FillNa(r["configuration"], Str(<<>>))),
                                {f["bedrooms"]}))
        o4  == Narrow(o3, Has(f, "min_price"), LAMBDA r : KeepMinPrice(r, f))
        o5  == Narrow(o4, Has(f, "max_price"), LAMBDA r : KeepMaxPrice(r, f))
        o6  == Narrow(o5, Has(f, "min_area"), LAMBDA r : KeepMinArea(r, f))
        o7  == Narrow(o6, Has(f, "max_area"), LAMBDA r : KeepMaxArea(r, f))
        o8  == Narrow(o7, Has(f, "exact_area"), LAMBDA r : KeepExactArea(r, f))
        o9  == Narrow(o8, Has(f, "building"),
                      LAMBDA r : AsStr(r["_building_upper"]) = f["building"])
        o10 == Narrow(o9, Has(f, "unit_no"),
                      LAMBDA r : AsStr(r["_unit_upper"]) = f["unit_no"])
    IN  IF \E d \in DOMAIN f : ~HasCol(df, ColumnOf(d))
        THEN [raised |-> TRUE, df |-> [df EXCEPT !.rows = <<>>]]
        ELSE [raised |-> FALSE, df |-> o10]

(***************************************************************************)
(* filter_df, under the sidebar state side = [project, status, bedrooms,   *)
(* min_price, max_price, min_area, max_area].                              *)
(***************************************************************************)
\* bedrooms.split(","): the pieces between the commas.
RECURSIVE Split(_)
Split(s) ==
    IF Count(s, ",") = 0 THEN <<s>>
    ELSE LET p == Min({i \in DOMAIN s : s[i] = ","})
         IN  <<SubSeq(s, 1, p - 1)>> \o Split(SubSeq(s, p + 1, Len(s)))

\* [n.strip() for n in bedrooms.split(",") if n.strip()]
BedroomNums(s) == {Strip(x) : x \in {y \in Range(Split(s)) : Strip(y) # <<>>}}

filter_df(df, side) ==
    LET lo_p == parse_number(side.min_price)
        hi_p == parse_number(side.max_price)
        lo_a == parse_number(side.min_area)
        hi_a == parse_number(side.max_area)
        nums == BedroomNums(side.bedrooms)
        o1   == Narrow(df, side.project # <<>>, LAMBDA r : IsIn(r["project"], side.project))
        o2   == Narrow(o1, side.status # <<>>, LAMBDA r : IsIn(r["status"], side.status))
        o3   == Narrow(o2, side.bedrooms # <<>> /\ nums # {}, LAMBDA r :
                   BedroomsMatch(AsStr(FillNa(r["configuration"], Str(<<>>))), nums))
        o4   == Narrow(o3, lo_p # None, LAMBDA r : Ge(FillNa(r["price"], Zero), lo_p))
        o5   == Narrow(o4, hi_p # None, LAMBDA r : Le(FillNa(r["price"], Zero), hi_p))
        o6   == Narrow(o5, lo_a # None, LAMBDA r : Ge(FillNa(r["selling_area"], Zero), lo_a))
        o7   == Narrow(o6, hi_a # None, LAMBDA r : Le(FillNa(r["selling_area"], Zero), hi_a))
        needs == {c \in {"project"} : side.project # <<>>}
                 \cup {c \in {"status"} : side.status # <<>>}
                 \cup {c \in {"configuration"} : side.bedrooms # <<>> /\ nums # {}}
                 \cup {c \in {"price"} : lo_p # None \/ hi_p # None}
                 \cup {c \in {"selling_area"} : lo_a # None \/ hi_a # None}
    IN  IF \E c \in needs : ~HasCol(df, c)
        THEN [raised |-> TRUE, df |-> [df EXCEPT !.rows = <<>>]]
        ELSE [raised |-> FALSE, df |-> o7]

(***************************************************************************)
(* The sheets and load_all_units.  A raw sheet is what try_load_sheet      *)
(* returns: [header_row, cols, rows], header_row saying which row held the *)
(* headers (0: read_csv inferred each column's type; 1: every column is    *)
(* of type object), and each cell a text as the sheet has it, or NaN.      *)
(***************************************************************************)
BW_KEEP == << <<"#", "row_no">>, <<"Building No.#", "building">>,
              <<"Unit No.#", "unit_no">>, <<"Floor No.#", "floor">>,
              <<"Configuration", "configuration">>, <<"Selling Area", "selling_area">>,
              <<"Land Area", "land_area">>, <<"Open Terrace\n Area", "terrace_area">>,
              <<"10 Years 0%", "price">>, <<"Status", "status">> >>

BOHO_KEEP == << <<"#", "row_no">>, <<"Unit Type", "unit_type">>,
                <<"Building No#", "building">>, <<"Unit No.#", "unit_no">>,
                <<"Floor No.#", "floor">>, <<"Configuration", "configuration">>,
                <<"Selling Area", "selling_area">>, <<"Land Area", "land_area">>,
                <<"Garden area", "garden_area">>, <<"Original Value", "price">>,
                <<"Status", "status">> >>

key_order == <<"project", "building", "unit_no", "floor", "configuration", "unit_type",
               "selling_area", "land_area", "garden_area", "terrace_area", "price",
               "status">>

NumericCols == {"price", "selling_area", "land_area", "garden_area", "terrace_area"}

\* The columns, besides key_order's, a sheet can bring, sorted.
OtherCols == <<"row_no">>

\* c.startswith("_"), over the column names of the tables.
StartsWithUnderscore(c) == c \in {"_unit_upper", "_building_upper"}

\* raw[[c for c in KEEP if c in raw.columns]].rename(columns=KEEP), and the
\* project column added after it.
KeepRename(raw, KEEP, project) ==
    LET kept == SelectSeq(KEEP, LAMBDA p : p[1] \in Range(raw.cols))
        cols == [i \in 1..Len(kept) |-> kept[i][2]]
        from == [c \in Range(cols) |-> (CHOOSE p \in Range(kept) : p[2] = c)[1]]
    IN  [cols |-> cols \o <<"project">>,
         rows |-> [i \in 1..Len(raw.rows) |->
                     [c \in Range(cols) \cup {"project"} |->
                        IF c = "project" THEN Str(project) ELSE raw.rows[i][from[c]]]]]

\* The column is of type object: it was read below a header at row 1, has no
\* cell, or holds a text that is no number (read_csv makes the rest numeric).
IsObject(df, header_row, c) ==
    \/ c = "project"
    \/ header_row = 1
    \/ df.rows = <<>>
    \/ \E i \in DOMAIN df.rows : df.rows[i][c].k = "str" /\ PyFloat(df.rows[i][c].s) = None

\* astype(str).str.strip(), then replace({"nan": pd.NA}).
CleanText(c) ==
    IF Strip(AsStr(c)) = <<"n","a","n">> THEN NaN ELSE Str(Strip(AsStr(c)))

\* re.sub(r"\s+", " ", s)
RECURSIVE CollapseWs(_)
CollapseWs(s) ==
    IF s = <<>> THEN <<>>
    ELSE IF IsSpace(Head(s))
         THEN <<" ">> \o CollapseWs(SubSeq(s, SkipWs(s, 1), Len(s)))
    ELSE <<Head(s)>> \o CollapseWs(Tail(s))

\* coerce_numeric of a cell: pd.to_numeric(str with the commas removed and
\* stripped, errors="coerce").
coerce_numeric(c) ==
    IF IsNA(c) THEN NaN
    ELSE LET v == PyFloat(Strip(Remove(AsStr(c), ",")))
         IN  IF v = None THEN NaN ELSE v

MapCol(df, c, F(_)) ==
    [df EXCEPT !.rows = [i \in DOMAIN df.rows |-> [df.rows[i] EXCEPT ![c] = F(@)]]]

MapCols(df, cs, F(_)) ==
    [df EXCEPT !.rows = [i \in DOMAIN df.rows |->
        [c \in DOMAIN df.rows[i] |-> IF c \in cs THEN F(df.rows[i][c]) ELSE df.rows[i][c]]]]

\* df["status"].fillna("Available"), where the frame has the column.
StatusDefault(df) ==
    IF HasCol(df, "status")
    THEN MapCol(df, "status", LAMBDA c : FillNa(c, Str(Available)))
    ELSE df

\* The result: the cleaned frame, or raised = TRUE for the AttributeError of
\* .str on a floor or configuration column that is not of type object.
cleanup_cols(df, header_row) ==
    LET objs == {c \in Range(df.cols) : IsObject(df, header_row, c)}
        d1   == MapCols(df, objs, CleanText)
        d2   == MapCols(d1, Range(df.cols) \cap {"floor", "configuration"},
                        LAMBDA c : IF IsNA(c) THEN c ELSE Str(CollapseWs(c.s)))
        d3   == MapCols(d2, Range(df.cols) \cap NumericCols, coerce_numeric)
    IN  IF \E c \in Range(df.cols) \cap {"floor", "configuration"} : c \notin objs
        THEN [raised |-> TRUE, df |-> df]
        ELSE [raised |-> FALSE, df |-> StatusDefault(d3)]

\* reindex(columns=all_cols): the columns the frame lacks are filled with NaN.
Reindex(df, all_cols) ==
    [i \in DOMAIN df.rows |->
        [c \in all_cols |-> IF c \in DOMAIN df.rows[i] THEN df.rows[i][c] ELSE NaN]]

\* all_cols, as a set: the final order is that of key_order.
AllCols(bw, boho) == Range(bw.cols) \cup Range(boho.cols)

\* pd.concat([bw, boho], ignore_index=True).dropna(how="all")
Concat(bw, boho) ==
    SelectSeq(Reindex(bw, AllCols(bw, boho)) \o Reindex(boho, AllCols(bw, boho)),
              LAMBDA r : \E c \in AllCols(bw, boho) : ~IsNA(r[c]))

\* units["_unit_upper"], units["_building_upper"]
Shadowed(rows) ==
    [i \in DOMAIN rows |->
        [c \in DOMAIN rows[i] \cup {"_unit_upper", "_building_upper"} |->
            IF c = "_unit_upper" THEN Str(Upper(AsStr(rows[i]["unit_no"])))
            ELSE IF c = "_building_upper" THEN Str(Upper(AsStr(rows[i]["building"])))
            ELSE rows[i][c]]]

\* Lines 109-125, from the two cleaned frames.
Unify(bw, boho) ==
    IF bw.raised \/ boho.raised \/ ~({"unit_no", "building"} \subseteq AllCols(bw.df, boho.df))
    THEN [raised |-> TRUE, df |-> [cols |-> <<>>, rows |-> <<>>]]
    ELSE [raised |-> FALSE,
          df |-> [cols |-> SelectSeq(key_order \o OtherCols,
                                     LAMBDA c : c \in AllCols(bw.df, boho.df))
                           \o <<"_unit_upper", "_building_upper">>,
                  rows |-> Shadowed(Concat(bw.df, boho.df))]]

\* The result: the unified table, or raised = TRUE for an exception.
load_all_units(bw, boho) ==
    Unify(cleanup_cols(KeepRename(bw, BW_KEEP, Boardwalk), bw.header_row),
          cleanup_cols(KeepRename(boho, BOHO_KEEP, BOHO), boho.header_row))

(***************************************************************************)
(* The script: one run per user interaction.                               *)
(*   pc        where the run stands                                        *)
(*   bw_raw, boho_raw   the two sheets as try_load_sheet returns them      *)
(*   units     load_all_units()                                            *)
(*   side      the sidebar widgets; prompt: the chat text input            *)
(*   nums      lo_p, hi_p, lo_a, hi_a as filter_df parsed them             *)
(*   filtered  filter_df(units);  f: parse_query(prompt);  chat_df         *)
(*   shown     the columns st.dataframe was given                          *)
(*   sel       the unit of the preview;  csv: the columns of the download  *)
(*   fa, fb, out   two intents and the tables apply_filters makes of them  *)
(***************************************************************************)
VARIABLES pc, bw_raw, boho_raw, units, side, nums, filtered, prompt, f, chat_df,
          shown, sel, csv, fa, fb, out

vars == <<pc, bw_raw, boho_raw, units, side, nums, filtered, prompt, f, chat_df,
          shown, sel, csv, fa, fb, out>>

EmptyDf == [cols |-> <<>>, rows |-> <<>>]

NoIntent == [raised |-> FALSE, f |-> [d \in {} |-> <<>>]]

NoNums == [lo_p |-> None, hi_p |-> None, lo_a |-> None, hi_a |-> None]

SideEmpty == [project |-> <<>>, status |-> <<>>, bedrooms |-> <<>>,
              min_price |-> <<>>, max_price |-> <<>>,
              min_area |-> <<>>, max_area |-> <<>>]

NoSel == <<"-","-">>

\* Series.dropna().unique().tolist() of a column.
RECURSIVE Unique(_)
Unique(s) ==
    IF s = <<>> THEN <<>>
    ELSE LET u == Unique(SubSeq(s, 1, Len(s) - 1))
         IN  IF s[Len(s)] \in Range(u) THEN u ELSE Append(u, s[Len(s)])

ColumnValues(df, c) ==
    Unique([i \in 1..Len(SelectSeq(df.rows, LAMBDA r : ~IsNA(r[c]))) |->
               AsStr(SelectSeq(df.rows, LAMBDA r : ~IsNA(r[c]))[i][c])])

\* Lines 219-222: units = load_all_units(); an empty table stops the run.
Load ==
    /\ pc = "load"
    /\ \E r \in {load_all_units(bw_raw, boho_raw)} :
           /\ units' = r.df
           /\ pc' = IF r.raised THEN "error"
                    ELSE IF r.df.rows = <<>> THEN "stopped" ELSE "sidebar"
    /\ UNCHANGED <<bw_raw, boho_raw, side, nums, filtered, prompt, f, chat_df,
                   shown, sel, csv, fa, fb, out>>

\* Lines 225-233: the sidebar reads the project and status columns for its options.
Sidebar ==
    /\ pc = "sidebar"
    /\ pc' = IF HasCol(units, "project") /\ HasCol(units, "status")
             THEN "filter" ELSE "error"
    /\ UNCHANGED <<bw_raw, boho_raw, units, side, nums, filtered, prompt, f, chat_df,
                   shown, sel, csv, fa, fb, out>>

\* Line 252: filtered = filter_df(units).
FilterDf ==
    /\ pc = "filter"
    /\ \E r \in {filter_df(units, side)} :
           /\ filtered' = r.df
           /\ pc' = IF r.raised THEN "error" ELSE "chat"
    /\ nums' = [lo_p |-> parse_number(side.min_price),
                hi_p |-> parse_number(side.max_price),
                lo_a |-> parse_number(side.min_area),
                hi_a |-> parse_number(side.max_area)]
    /\ UNCHANGED <<bw_raw, boho_raw, units, side, prompt, f, chat_df,
                   shown, sel, csv, fa, fb, out>>

\* Lines 258-261: chat_df = filtered, or apply_filters(filtered, parse_query(prompt)).
Chat ==
    /\ pc = "chat"
    /\ IF prompt = <<>>
       THEN /\ f' = NoIntent
            /\ chat_df' = filtered
            /\ pc' = "display"
       ELSE \E q \in {parse_query(prompt)} :
              \E r \in {apply_filters(filtered, q.f)} :
                /\ f' = q
                /\ chat_df' = IF q.raised \/ r.raised THEN EmptyDf ELSE r.df
                /\ pc' = IF q.raised \/ r.raised THEN "error" ELSE "display"
    /\ UNCHANGED <<bw_raw, boho_raw, units, side, nums, filtered, prompt,
                   shown, sel, csv, fa, fb, out>>

\* Lines 263-264: st.dataframe(chat_df).
Display ==
    /\ pc = "display"
    /\ shown' = chat_df.cols
    /\ pc' = "select"
    /\ UNCHANGED <<bw_raw, boho_raw, units, side, nums, filtered, prompt, f, chat_df,
                   sel, csv, fa, fb, out>>

PreviewCols == {"project", "building", "unit_no", "floor", "configuration",
                "selling_area", "price", "status"}

\* Lines 266-297: the unit chosen in the select box (c), replaced by the only
\* unit of the result when the prompt named a unit; its row is read for the preview.
Select ==
    /\ pc = "select"
    /\ IF ~HasCol(chat_df, "unit_no")
       THEN sel' = NoSel /\ pc' = "error"
       ELSE LET unit_choices == ColumnValues(chat_df, "unit_no")
            IN  \E c \in {NoSel} \cup Range(unit_choices) :
                  LET s   == IF prompt # <<>> /\ Has(f.f, "unit_no") /\ Len(unit_choices) = 1
                             THEN unit_choices[1] ELSE c
                      row == SelectSeq(chat_df.rows,
                                       LAMBDA r : AsStr(r["_unit_upper"]) = Upper(s))
                  IN  /\ sel' = s
                      /\ pc' = IF s # NoSel /\ row # <<>>
                                  /\ ~(PreviewCols \subseteq Range(chat_df.cols))
                               THEN "error" ELSE "export"
    /\ UNCHANGED <<bw_raw, boho_raw, units, side, nums, filtered, prompt, f, chat_df,
                   shown, csv, fa, fb, out>>

\* Lines 299-301: the CSV is chat_df without the columns that start with "_".
Export ==
    /\ pc = "export"
    /\ csv' = SelectSeq(chat_df.cols, LAMBDA c : ~StartsWithUnderscore(c))
    /\ pc' = "done"
    /\ UNCHANGED <<bw_raw, boho_raw, units, side, nums, filtered, prompt, f, chat_df,
                   shown, sel, fa, fb, out>>

(***************************************************************************)
(* The inputs: sheets, sidebar states and prompts.                         *)
(***************************************************************************)
MaxSheetRows == 1

\* the texts over the characters of A of length n at most
RECURSIVE TextsUpTo(_, _)
TextsUpTo(A, n) ==
    IF n = 0 THEN {<<>>}
    ELSE LET shorter == TextsUpTo(A, n - 1)
         IN  shorter \cup {Append(t, c) : t \in shorter, c \in A}

BwCore == <<"Building No.#", "Unit No.#", "Floor No.#", "Configuration",
            "Selling Area", "10 Years 0%">>

BohoCore == <<"Unit Type", "Building No#", "Unit No.#", "Floor No.#", "Configuration",
              "Selling Area", "Original Value">>

\* One row of a sheet, by header; st is its cell under the status header.
BwRow(b, u, fl, cfg, area, price, st) ==
    [h \in Range(BwCore) \cup {"st"} |->
        CASE h = "Building No.#" -> b   [] h = "Unit No.#" -> u
          [] h = "Floor No.#" -> fl     [] h = "Configuration" -> cfg
          [] h = "Selling Area" -> area [] h = "10 Years 0%" -> price
          [] h = "st" -> st]

BohoRow(ty, b, u, fl, cfg, area, price, st) ==
    [h \in Range(BohoCore) \cup {"st"} |->
        CASE h = "Unit Type" -> ty
          [] h = "Building No#" -> b    [] h = "Unit No.#" -> u
          [] h = "Floor No.#" -> fl     [] h = "Configuration" -> cfg
          [] h = "Selling Area" -> area [] h = "Original Value" -> price
          [] h = "st" -> st]

BwRows ==
    { BwRow(Str(<<"C","1">>), Str(<<"C","1","-","0","0","2">>), Str(<<"G","r","o","u","n","d">>), Str(<<"2"," "," ","B","e","d","r","o","o","m","s">>),
            Str(<<"1","8","0">>), Str(<<"1","2",",","0","0","0",",","0","0","0">>), Str(<<"H","o","l","d">>)),
      BwRow(Str(<<"c","2">>), Str(<<"c","2","-","1","1">>), Str(<<"F","i","r","s","t"," ">>), NaN, NaN, NaN, NaN),
      BwRow(Str(<<"A","1","2">>), Str(<<"A","1","2","-","1","0","1">>), Str(<<"R","o","o","f">>), Str(<<"3"," ","B","e","d","r","o","o","m","s">>),
            Str(<<"9","5",".","5">>), Str(<<"n","/","a">>), Str(<<" ","S","o","l","d"," ">>)) }

BohoRows ==
    { BohoRow(Str(<<"V","i","l","l","a">>), Str(<<"B","1">>), Str(<<"B","1","-","0","1">>), Str(<<"G","r","o","u","n","d">>), Str(<<"2"," ","b","e","d","r","o","o","m">>),
              Str(<<"1","5","0">>), Str(<<"1","0","0","0","0","0","0","0">>), Str(<<"H","o","l","d">>)),
      BohoRow(Str(<<"T","w","i","n">>), Str(<<"C","1">>), Str(<<"C","1","-","0","0","2">>), Str(<<"F","i","r","s","t">>), Str(<<"S","t","u","d","i","o">>),
              Str(<<"1",",","2","0","0">>), NaN, NaN) }

\* The sheet with its headers at row header_row, the columns core and, when
\* status_header is not "", one more column of that name.
Sheet(header_row, core, status_header, rows) ==
    LET cols == IF status_header = "" THEN core ELSE Append(core, status_header)
    IN  [header_row |-> header_row,
         cols |-> cols,
         rows |-> [i \in DOMAIN rows |->
                     [h \in Range(cols) |->
                        IF h = status_header THEN rows[i]["st"] ELSE rows[i][h]]]]

RowSeqs(R) == UNION {[1..n -> R] : n \in 0..MaxSheetRows}

BwSheets == {Sheet(hr, BwCore, sh, rows) :
                hr \in {0, 1}, sh \in {"Status", ""}, rows \in RowSeqs(BwRows)}

BohoSheets == {Sheet(0, BohoCore, sh, rows) :
                  sh \in {"Status", "STATUS", ""}, rows \in RowSeqs(BohoRows)}

SideTexts ==
    { SideEmpty,
      [SideEmpty EXCEPT !.min_price = <<"1">>],
      [SideEmpty EXCEPT !.min_price = <<"-","5">>],
      [SideEmpty EXCEPT !.min_price = <<"n","a","n">>],
      [SideEmpty EXCEPT !.max_price = <<"1","2","m">>],
      [SideEmpty EXCEPT !.max_price = <<"-","5">>],
      [SideEmpty EXCEPT !.bedrooms = <<"2",","," ","3">>, !.min_area = <<"9","0">>,
                        !.max_area = <<"2","0","0">>] }

\* What the sidebar can hold: texts typed in its fields, or one of the options
\* the multiselects offer (the values of the table's project and status).
SideChoices(df) ==
    SideTexts
    \cup (IF HasCol(df, "project")
          THEN {[SideEmpty EXCEPT !.project = <<x>>] : x \in Range(ColumnValues(df, "project"))}
          ELSE {})
    \cup (IF HasCol(df, "status")
          THEN {[SideEmpty EXCEPT !.status = <<x>>] : x \in Range(ColumnValues(df, "status"))}
          ELSE {})

Prompts ==
    { <<>>,
      <<"o","v","e","r"," ","0">>,
      <<"o","v","e","r"," ","1">>,
      <<"u","n","d","e","r"," ","1","2","m">>,
      <<"C","1"," ","1","8","0">>,
      <<"B","o","a","r","d","w","a","l","k"," ","C","1","-","0","0","2">>,
      <<"u","n","d","e","r"," ",".">> }

\* The user clears the widgets and fills the sidebar or the prompt: the script
\* runs again from its first line, on the sheets the cache holds.
Interact ==
    /\ pc \in {"done", "stopped", "error"}
    /\ \E s \in SideChoices(units), p \in Prompts :
          /\ s = SideEmpty \/ p = <<>>
          /\ side' = s
          /\ prompt' = p
    /\ pc' = "load"
    /\ nums' = NoNums
    /\ filtered' = EmptyDf
    /\ f' = NoIntent
    /\ chat_df' = EmptyDf
    /\ shown' = <<>>
    /\ sel' = NoSel
    /\ csv' = <<>>
    /\ UNCHANGED <<bw_raw, boho_raw, units, fa, fb, out>>

Fresh ==
    /\ pc = "load"
    /\ units = EmptyDf
    /\ nums = NoNums
    /\ filtered = EmptyDf
    /\ f = NoIntent
    /\ chat_df = EmptyDf
    /\ shown = <<>>
    /\ sel = NoSel
    /\ csv = <<>>
    /\ fa = NoIntent.f
    /\ fb = NoIntent.f
    /\ out = <<>>

\* The first run of a session, on any pair of sheets.
Init ==
    /\ Fresh
    /\ bw_raw \in BwSheets
    /\ boho_raw \in BohoSheets
    /\ side = SideEmpty
    /\ prompt = <<>>

Next == Load \/ Sidebar \/ FilterDf \/ Chat \/ Display \/ Select \/ Export \/ Interact

Spec == Init /\ [][Next]_vars

(***************************************************************************)
(* The texts: a session on one pair of sheets in which the user has typed  *)
(* a magnitude t in the sidebar's two price fields and a prompt made of a  *)
(* lead-in, t and a tail; or a prompt made of a unit code.                 *)
(***************************************************************************)
MaxLen == 3

NumChars == {"1", ".", ",", "m", "k", "e", " "}

LeadIns ==
    { <<>>, <<"u","n","d","e","r"," ">>, <<"<","=">>, <<"l","e","s","s"," ","t","h","a","n"," ">>,
      <<"o","v","e","r"," ">>, <<">","="," ">>, <<"m","o","r","e"," ","t","h","a","n"," ">>, <<"a","b","o","v","e">>,
      <<"a","r","e","a"," ","o","v","e","r"," ">>, <<"s","q","m"," ",">","=">>, <<"a","r","e","a"," ","m","i","n"," ">>,
      <<"a","r","e","a"," ","u","n","d","e","r"," ">>, <<"s","q","m","<","="," ">>, <<"a","r","e","a"," ","m","a","x"," ">> }

\* the lead-ins a tail is put behind
TailedLeadIns == { <<"u","n","d","e","r"," ">>, <<"o","v","e","r"," ">> }

Tails == { <<>>, <<" ","m","o","r","e"," ","t","h","a","n"," ","1">> }

ProjectWords == { <<>>, <<"B","o","a","r","d","w","a","l","k"," ">>, <<"b","o","h","o"," ">> }

\* one letter, 1-2 digits, a hyphen, 2-3 digits
UnitCodes ==
    { <<l>> \o a \o <<"-">> \o b :
        l \in {"C", "a"},
        a \in TextsUpTo({"1", "0"}, 2) \ {<<>>},
        b \in TextsUpTo({"0", "2"}, 3) \ TextsUpTo({"0", "2"}, 1) }

UnitPrompts == {w \o u : w \in ProjectWords, u \in UnitCodes}

FixedBw == Sheet(0, BwCore, "Status", <<CHOOSE r \in BwRows : r["Unit No.#"].s = <<"C","1","-","0","0","2">>>>)

FixedBoho == Sheet(0, BohoCore, "Status", <<>>)

InitParse ==
    /\ Fresh
    /\ bw_raw = FixedBw
    /\ boho_raw = FixedBoho
    /\ \/ \E t \in TextsUpTo(NumChars, MaxLen), l \in LeadIns, tl \in Tails :
             /\ tl = <<>> \/ l \in TailedLeadIns
             /\ prompt = l \o t \o tl
             /\ side = [SideEmpty EXCEPT !.min_price = t, !.max_price = t]
       \/ /\ prompt \in UnitPrompts
          /\ side = SideEmpty

SpecParse == InitParse /\ [][Next]_vars

(***************************************************************************)
(* apply_filters on its own: a table load_all_units makes of two sheets,   *)
(* and two intents fa and fb; out collects apply_filters(T, fa),           *)
(* apply_filters(that, fb), apply_filters(T, fb), apply_filters(that, fa)  *)
(* and apply_filters(T, fa merged with fb), in this order.                 *)
(***************************************************************************)
\* The values an intent gives each key.
IntentValues ==
    [d \in {"project", "status", "bedrooms", "min_price", "max_price", "min_area",
            "max_area", "exact_area", "building", "unit_no"} |->
        CASE d = "project"    -> {<<BOHO>>, <<BOHO, Boardwalk>>}
          [] d = "status"     -> {<<Hold>>, <<Available>>}
          [] d = "bedrooms"   -> {<<"2">>}
          [] d = "min_price"  -> {Norm(0, 0), Norm(1, 0)}
          [] d = "max_price"  -> {Norm(12, 6)}
          [] d = "min_area"   -> {Norm(150, 0)}
          [] d = "max_area"   -> {Norm(150, 0)}
          [] d = "exact_area" -> {Norm(180, 0)}
          [] d = "building"   -> {<<"C","1">>}
          [] d = "unit_no"    -> {<<"C","1","-","0","0","2">>}]

\* the intents with one key at most
SmallIntents ==
    {NoIntent.f}
    \cup UNION {{[x \in {d} |-> v] : v \in IntentValues[d]} : d \in DOMAIN IntentValues}

\* {**a, **b}
Merge(a, b) == [d \in DOMAIN a \cup DOMAIN b |-> IF d \in DOMAIN b THEN b[d] ELSE a[d]]

Tables ==
    {load_all_units(b, o).df :
        b \in {x \in BwSheets : x.header_row = 1 /\ "Status" \in Range(x.cols)},
        o \in {x \in BohoSheets : "Status" \in Range(x.cols)}}

InitFilter ==
    /\ pc = "fa"
    /\ bw_raw = FixedBw
    /\ boho_raw = FixedBoho
    /\ units \in Tables
    /\ side = SideEmpty
    /\ nums = NoNums
    /\ filtered = EmptyDf
    /\ prompt = <<>>
    /\ f = NoIntent
    /\ chat_df = EmptyDf
    /\ shown = <<>>
    /\ sel = NoSel
    /\ csv = <<>>
    /\ fa \in SmallIntents
    /\ fb \in {Merge(x, y) : x \in SmallIntents, y \in SmallIntents}
    /\ out = <<>>

Apply(at, df, intent, then) ==
    /\ pc = at
    /\ out' = Append(out, apply_filters(df, intent).df)
    /\ pc' = then
    /\ UNCHANGED <<bw_raw, boho_raw, units, side, nums, filtered, prompt, f, chat_df,
                   shown, sel, csv, fa, fb>>

ApplyA == Apply("fa", units, fa, "fab")

ApplyAThenB == Apply("fab", out[1], fb, "fb")

ApplyB == Apply("fb", units, fb, "fba")

ApplyBThenA == Apply("fba", out[3], fa, "fm")

ApplyMerged == Apply("fm", units, Merge(fa, fb), "fdone")

NextFilter == ApplyA \/ ApplyAThenB \/ ApplyB \/ ApplyBThenA \/ ApplyMerged

SpecFilter == InitFilter /\ [][NextFilter]_vars

(***************************************************************************)
(* Properties                                                              *)
(***************************************************************************)
\* The prompt went through parse_query and apply_filters without an exception.
ChatParsed == prompt # <<>> /\ pc \in {"display", "select", "export", "done"}

\* filter_df has run without an exception.
Filtered == pc \in {"chat", "display", "select", "export", "done"}

\* C1: parse_query is total: no prompt makes it raise, also when a lead-in is
\* followed by a run of digits, dots and commas that is no number.
C1_ParseQueryNeverRaises == ~f.raised

\* C2: neither the table handed to st.dataframe nor the exported CSV has a
\* column whose name begins with "_".
C2_NoShadowColumnInView ==
    /\ \A i \in DOMAIN shown : ~StartsWithUnderscore(shown[i])
    /\ \A i \in DOMAIN csv : ~StartsWithUnderscore(csv[i])

\* C3: for a prompt made of an optional project word and a unit code, the intent
\* holds building (the uppercased letter and digits before the hyphen), unit_no
\* (the uppercased code), project when the word is there, and nothing else.
C3_UnitCodeIntent ==
    \A w \in ProjectWords, u \in UnitCodes :
        ChatParsed /\ prompt = w \o u =>
            /\ DOMAIN f.f = {"building", "unit_no"} \cup {d \in {"project"} : w # <<>>}
            /\ f.f["unit_no"] = Upper(u)
            /\ f.f["building"] = Upper(SubSeq(u, 1, IndexOf(u, "-") - 1))

\* a is b with some of its elements left out.
RECURSIVE IsSubSeq(_, _)
IsSubSeq(a, b) ==
    IF a = <<>> THEN TRUE
    ELSE IF b = <<>> THEN FALSE
    ELSE IF Head(a) = Head(b) THEN IsSubSeq(Tail(a), Tail(b))
    ELSE IsSubSeq(a, Tail(b))

\* The intent b holds every constraint of the intent a.
Extends(b, a) == \A d \in DOMAIN a : d \in DOMAIN b /\ b[d] = a[d]

\* C4: when fb holds every constraint of fa, the rows of apply_filters(T, fb) are
\* among the rows of apply_filters(T, fa), which are among the rows of T, so that
\* |apply(T, fb)| <= |apply(T, fa)| <= |T|.
C4_MonotoneNarrowing ==
    pc = "fdone" /\ Extends(fb, fa) =>
        /\ IsSubSeq(out[3].rows, out[1].rows)
        /\ IsSubSeq(out[1].rows, units.rows)
        /\ Len(out[3].rows) <= Len(out[1].rows)
        /\ Len(out[1].rows) <= Len(units.rows)

C4_StrictNarrowingReached ==
    /\ pc = "fdone"
    /\ Extends(fb, fa)
    /\ DOMAIN fa # DOMAIN fb
    /\ Len(out[3].rows) < Len(out[1].rows)
    /\ Len(out[1].rows) < Len(units.rows)

\* C5: when fa and fb constrain disjoint dimensions, apply_filters(apply_filters(T,
\* fa), fb) is apply_filters(T, {**fa, **fb}), rows and order, and so is
\* apply_filters(apply_filters(T, fb), fa).
C5_DisjointIntentsCompose ==
    pc = "fdone" /\ DOMAIN fa \cap DOMAIN fb = {} =>
        /\ out[2] = out[5]
        /\ out[4] = out[5]

C5_BothIntentsNarrowReached ==
    /\ pc = "fdone"
    /\ DOMAIN fa # {} /\ DOMAIN fb # {}
    /\ DOMAIN fa \cap DOMAIN fb = {}
    /\ out[5].rows # <<>>
    /\ out[1] # out[5]
    /\ out[3] # units
    /\ out[2] = out[5]

\* C6: the sidebar and the prompt read a magnitude text alike: the max_price of
\* "under " + t is parse_number(t), the min_price of "over " + t is
\* parse_number(t), and either both give a bound or neither does.
C6_SameMagnitudeInBothPathways ==
    /\ ChatParsed /\ prompt = <<"u","n","d","e","r"," ">> \o side.max_price =>
          /\ Has(f.f, "max_price") <=> nums.hi_p # None
          /\ Has(f.f, "max_price") => f.f["max_price"] = nums.hi_p
    /\ ChatParsed /\ prompt = <<"o","v","e","r"," ">> \o side.min_price =>
          /\ Has(f.f, "min_price") <=> nums.lo_p # None
          /\ Has(f.f, "min_price") => f.f["min_price"] = nums.lo_p

\* The rows of df whose price is absent.
AbsentPrice(df) == {i \in DOMAIN df.rows : IsNA(df.rows[i]["price"])}

NotPositive(b) == b = NegInf \/ (b.k = "num" /\ b.m <= 0)

NotNegative(b) == b = Inf \/ (b.k = "num" /\ b.m >= 0)

\* Only the field d of the sidebar is filled.
SideOnly(d) == side[d] # <<>> /\ side = [SideEmpty EXCEPT ![d] = side[d]]

\* C7: a record whose price is absent is compared as price 0, in apply_filters and
\* in filter_df: with nothing else constrained, a min_price bound b keeps it
\* exactly when b <= 0 and a max_price bound b keeps it exactly when b >= 0.
C7_AbsentPriceComparedAsZero ==
    /\ ChatParsed /\ DOMAIN f.f = {"min_price"} =>
          \A i \in AbsentPrice(filtered) :
              filtered.rows[i] \in Range(chat_df.rows) <=> NotPositive(f.f["min_price"])
    /\ ChatParsed /\ DOMAIN f.f = {"max_price"} =>
          \A i \in AbsentPrice(filtered) :
              filtered.rows[i] \in Range(chat_df.rows) <=> NotNegative(f.f["max_price"])
    /\ Filtered /\ SideOnly("min_price") /\ nums.lo_p # None =>
          \A i \in AbsentPrice(units) :
              units.rows[i] \in Range(filtered.rows) <=> NotPositive(nums.lo_p)
    /\ Filtered /\ SideOnly("max_price") /\ nums.hi_p # None =>
          \A i \in AbsentPrice(units) :
              units.rows[i] \in Range(filtered.rows) <=> NotNegative(nums.hi_p)

\* {min_price: 1} on a record without price and a priced one leaves the priced one.
C7_PositiveMinBoundDropsAbsentPrice ==
    /\ ChatParsed
    /\ DOMAIN f.f = {"min_price"}
    /\ f.f["min_price"] = Norm(1, 0)
    /\ AbsentPrice(filtered) # {}
    /\ chat_df.rows # <<>>
    /\ AbsentPrice(chat_df) = {}

\* C7 as the specification words it: an absent price fails every min_price bound
\* and passes every max_price bound the prompt or the sidebar can give.
C7_AbsentPriceFailsEveryMinBound ==
    /\ ChatParsed /\ DOMAIN f.f = {"min_price"} =>
          \A i \in AbsentPrice(filtered) : filtered.rows[i] \notin Range(chat_df.rows)
    /\ ChatParsed /\ DOMAIN f.f = {"max_price"} =>
          \A i \in AbsentPrice(filtered) : filtered.rows[i] \in Range(chat_df.rows)
    /\ Filtered /\ SideOnly("min_price") /\ nums.lo_p # None =>
          \A i \in AbsentPrice(units) : units.rows[i] \notin Range(filtered.rows)
    /\ Filtered /\ SideOnly("max_price") /\ nums.hi_p # None =>
          \A i \in AbsentPrice(units) : units.rows[i] \in Range(filtered.rows)

\* C8: every record of the table load_all_units returns (pc = "sidebar": it has
\* returned, with records) has a status, "Available" where the source gives none.
C8_StatusNeverAbsent ==
    pc = "sidebar" =>
        /\ HasCol(units, "status")
        /\ \A i \in DOMAIN units.rows : ~IsNA(units.rows[i]["status"])

\* The plain numbers of the prompts.
PlainNumbers == TextsUpTo({"1"}, MaxLen) \ {<<>>}

\* What follows a number after a blank.
Rests == { <<"m","o","r","e"," ","t","h","a","n"," ","1">>, <<"e">>, <<"1">> }

\* C9: a price number without k/m suffix is taken as raw units whatever follows
\* it after a blank: "under N rest" gives max_price N and "over N rest" gives
\* min_price N, also when rest begins with "m" or "k".
C9_PlainNumberIsRawUnits ==
    \A n \in PlainNumbers, r \in Rests :
        /\ ChatParsed /\ prompt = <<"u","n","d","e","r"," ">> \o n \o <<" ">> \o r =>
              Has(f.f, "max_price") /\ f.f["max_price"] = Norm(DigitsVal(n), 0)
        /\ ChatParsed /\ prompt = <<"o","v","e","r"," ">> \o n \o <<" ">> \o r =>
              Has(f.f, "min_price") /\ f.f["min_price"] = Norm(DigitsVal(n), 0)

\* C10: an intent whose min_area came through "over" or ">=" holds min_price too,
\* one whose max_area came through "under" or "<=" holds max_price too, and such
\* an intent holds no exact_area; an area bound without a price bound came
\* through "min" or "max".
C10_AreaComparatorImpliesPrice ==
    ChatParsed =>
        /\ Has(f.f, "min_area")
             /\ SearchArea(Lower(prompt), MinAreaCmps).cmp \in {<<"o","v","e","r">>, <<">","=">>}
             => Has(f.f, "min_price") /\ ~Has(f.f, "exact_area")
        /\ Has(f.f, "max_area")
             /\ SearchArea(Lower(prompt), MaxAreaCmps).cmp \in {<<"u","n","d","e","r">>, <<"<","=">>}
             => Has(f.f, "max_price") /\ ~Has(f.f, "exact_area")
        /\ Has(f.f, "min_area") /\ ~Has(f.f, "min_price")
             => SearchArea(Lower(prompt), MinAreaCmps).cmp = <<"m","i","n">>
        /\ Has(f.f, "max_area") /\ ~Has(f.f, "max_price")
             => SearchArea(Lower(prompt), MaxAreaCmps).cmp = <<"m","a","x">>

C10_AreaThroughGeReached ==
    /\ ChatParsed
    /\ Has(f.f, "min_area")
    /\ SearchArea(Lower(prompt), MinAreaCmps).cmp = <<">","=">>
    /\ Has(f.f, "min_price")
    /\ f.f["min_price"] = f.f["min_area"]

=============================================================================
